---- MODULE Spec2Model ----
(***************************************************************************)
(* VQ-CLIP model composition layer (src/vq_clip/modeling_vq_clip.py):      *)
(* VQCLIPConfig, VQCLIPModel.__init__, VQCLIPModel.forward,                *)
(* VQCLIPModel.save_adapter and VQCLIPModel.from_pretrained_clip.          *)
(*                                                                         *)
(* Python values are represented as follows.                               *)
(*   None            the empty sequence <<>>; an Optional value x that is  *)
(*                   not None is the one-element sequence <<x>>            *)
(*   float scalar    an exact rational <<numerator, denominator>>          *)
(*   tensor [N, D]   a sequence of N rows, each a sequence of D rationals  *)
(*   str (a name)    a sequence of one-character strings, so that          *)
(*                   str.startswith is a prefix test on characters         *)
(*   dict            a function from keys to values                        *)
(***************************************************************************)
EXTENDS Integers, Sequences, FiniteSets, TLC

VARIABLES model, fs, graft, call, out

vars == <<model, fs, graft, call, out>>

-----------------------------------------------------------------------------
(* Bounds of the model *)

\* rows of a batch (N matched image/text pairs)
BatchSize == 2
\* distinct token-id batches and distinct pixel batches offered to forward
NumInputs == 2
\* distinct results an adapter call may return
NumAdapterResults == 2

-----------------------------------------------------------------------------
(* Optional values *)

None == <<>>

Some(x) == <<x>>

\* bool(x) of an Optional[bool]: None and False are falsy
Truthy(o) == o # None /\ o[1]

-----------------------------------------------------------------------------
(* Exact scalar arithmetic standing for the float arithmetic of forward *)

Abs(n) == IF n < 0 THEN -n ELSE n

RECURSIVE GCD(_, _)
GCD(a, b) == IF b = 0 THEN a ELSE GCD(b, a % b)

\* the rational n/d in lowest terms with a positive denominator
Rat(n, d) ==
    LET g == GCD(Abs(n), Abs(d))
        s == IF d < 0 THEN -1 ELSE 1
    IN  <<(s * n) \div g, (s * d) \div g>>

Zero == Rat(0, 1)

One == Rat(1, 1)

Two == Rat(2, 1)

RAdd(a, b) == Rat(a[1] * b[2] + b[1] * a[2], a[2] * b[2])

RMul(a, b) == Rat(a[1] * b[1], a[2] * b[2])

RDiv(a, b) == Rat(a[1] * b[2], a[2] * b[1])

\* the sequence f, evaluated element by element once and for all
Tuple(f) == f \o <<>>

RECURSIVE RSum(_)
RSum(s) == IF s = <<>> THEN Zero ELSE RAdd(Head(s), RSum(Tail(s)))

\* the exact square root of a perfect square
ISqrt(n) == CHOOSE k \in 0..n : k * k = n

\* sum of squares of a vector's components
NormSq(v) == RSum(Tuple([i \in 1..Len(v) |-> RMul(v[i], v[i])]))

\* v.norm(p=2): defined here for the vectors whose norm is rational
Norm(v) == LET s == NormSq(v) IN Rat(ISqrt(s[1]), ISqrt(s[2]))

Dot(u, v) == RSum(Tuple([i \in 1..Len(u) |-> RMul(u[i], v[i])]))

\* v / c for a vector v and a scalar c
VecDiv(v, c) == Tuple([i \in 1..Len(v) |-> RDiv(v[i], c)])

\* faulty variant of Normalize: the division by the norm is left out
Normalize_skipped(x) == x

\* x / x.norm(p=2, dim=-1, keepdim=True), row by row
Normalize(x) == Tuple([r \in 1..Len(x) |-> VecDiv(x[r], Norm(x[r]))])

\* m.t() of a [rows, cols] matrix
Transpose(m) ==
    Tuple([j \in 1..Len(m[1]) |-> Tuple([i \in 1..Len(m) |-> m[i][j]])])

\* torch.matmul(a, b) for a: [n, d], b: [d, k]
MatMul(a, b) ==
    LET bt == Transpose(b)
    IN  Tuple([i \in 1..Len(a) |->
                 Tuple([j \in 1..Len(bt) |-> Dot(a[i], bt[j])])])

MatScale(m, c) ==
    Tuple([i \in 1..Len(m) |->
             Tuple([j \in 1..Len(m[i]) |-> RMul(m[i][j], c)])])

UnitNorm(x) == \A r \in 1..Len(x) : NormSq(x[r]) = One

-----------------------------------------------------------------------------
(* Names: attribute names of VQCLIPModel and parameter names *)

CLIP_MODEL == <<"c", "l", "i", "p", "_", "m", "o", "d", "e", "l">>

VISION_VQ_ADAPTER == <<"v", "i", "s", "i", "o", "n", "_", "v", "q", "_", "a", "d", "a", "p", "t", "e", "r">>

TEXT_VQ_ADAPTER == <<"t", "e", "x", "t", "_", "v", "q", "_", "a", "d", "a", "p", "t", "e", "r">>

DOT == <<".">>

LOGIT_SCALE == <<"l", "o", "g", "i", "t", "_", "s", "c", "a", "l", "e">>

TEXT_PROJECTION == <<"t", "e", "x", "t", "_", "p", "r", "o", "j", "e", "c", "t", "i", "o", "n", ".", "w", "e", "i", "g", "h", "t">>

VISUAL_PROJECTION == <<"v", "i", "s", "u", "a", "l", "_", "p", "r", "o", "j", "e", "c", "t", "i", "o", "n", ".", "w", "e", "i", "g", "h", "t">>

CODEBOOK == <<"c", "o", "d", "e", "b", "o", "o", "k">>

\* k.startswith(prefix)
StartsWith(k, prefix) ==
    Len(k) >= Len(prefix) /\ SubSeq(k, 1, Len(prefix)) = prefix

EmptyDict == [k \in {} |-> 0]

\* bool(d) of an Optional[dict]: None and the empty dict are falsy
DictTruthy(o) == o # None /\ DOMAIN o[1] # {}

-----------------------------------------------------------------------------
(* VQCLIPConfig *)

\* CLIPConfig().to_dict(): the default backbone fragment
DefaultClipConfigDict == [return_dict |-> TRUE]

\* VQAdapterConfig().to_dict(): the default adapter fragment
DefaultAdapterConfigDict == [codebook_size |-> 1024]

ConfigKeys ==
    {"clip_config_dict", "vision_vq_adapter_config_dict",
     "text_vq_adapter_config_dict"}

\* VQCLIPConfig.__init__(**kwargs): a keyword that is given is stored as given
\* (None included), a keyword that is not given takes the signature's default
VQCLIPConfig(kwargs) ==
    [clip_config_dict |->
        IF "clip_config_dict" \in DOMAIN kwargs
        THEN kwargs["clip_config_dict"] ELSE DefaultClipConfigDict,
     vision_vq_adapter_config_dict |->
        IF "vision_vq_adapter_config_dict" \in DOMAIN kwargs
        THEN kwargs["vision_vq_adapter_config_dict"]
        ELSE Some(DefaultAdapterConfigDict),
     text_vq_adapter_config_dict |->
        IF "text_vq_adapter_config_dict" \in DOMAIN kwargs
        THEN kwargs["text_vq_adapter_config_dict"] ELSE None]

\* faulty variant of VQCLIPConfig_to_dict: an attribute that is None is left
\* out of the mapping
VQCLIPConfig_to_dict_drop_none(config) ==
    [k \in {x \in ConfigKeys : x = "clip_config_dict" \/ config[x] # None}
           \cup {"model_type"} |->
        IF k = "model_type" THEN "VQCLIP" ELSE config[k]]

\* PretrainedConfig.to_dict(), inherited: the instance's attributes, None
\* values included, plus the class's model_type
VQCLIPConfig_to_dict(config) ==
    [k \in ConfigKeys \cup {"model_type"} |->
        IF k = "model_type" THEN "VQCLIP" ELSE config[k]]

\* PretrainedConfig.from_dict(d), inherited: cls(**d)
VQCLIPConfig_from_dict(d) == VQCLIPConfig(d)

\* CLIPConfig.from_dict(d)
CLIPConfig_from_dict(d) ==
    [return_dict |->
        IF "return_dict" \in DOMAIN d THEN d["return_dict"] ELSE TRUE]

\* CLIPConfig.use_return_dict
use_return_dict(clip_config) == clip_config.return_dict

\* keyword arguments of a constructor call: an argument that is None here is
\* a keyword the caller leaves out
Kwargs(c, v, t) ==
    LET arg == [k \in ConfigKeys |->
                  IF k = "clip_config_dict" THEN c
                  ELSE IF k = "vision_vq_adapter_config_dict" THEN v ELSE t]
    IN  [k \in {x \in ConfigKeys : arg[x] # None} |-> arg[k][1]]

ClipFragments == {[return_dict |-> FALSE]}

AdapterFragments == {[codebook_size |-> 64]}

\* the constructor calls considered: each fragment left out, or given; an
\* adapter fragment may be given as None, and the vision one as an empty dict
ConstructorCalls ==
    {Kwargs(c, v, t) :
        c \in {None} \cup {Some(x) : x \in ClipFragments},
        v \in {None, Some(None), Some(Some(EmptyDict))}
              \cup {Some(Some(x)) : x \in AdapterFragments},
        t \in {None, Some(None)} \cup {Some(Some(x)) : x \in AdapterFragments}}

-----------------------------------------------------------------------------
(* Sub-instances: each is the mapping from its parameter names to values *)

\* value of a parameter that was initialised from the configuration and
\* neither trained nor loaded
InitWeight == 0

\* CLIPModel(clip_config): a backbone initialised from its configuration
CLIPModel(clip_config) ==
    (LOGIT_SCALE :> InitWeight) @@ (TEXT_PROJECTION :> InitWeight)
        @@ (VISUAL_PROJECTION :> InitWeight)

\* VQAdapterModel(adapter_config): an adapter initialised from its configuration
VQAdapterModel(adapter_config) == (CODEBOOK :> InitWeight)

\* VQCLIPModel.__init__(config)
VQCLIPModel_init(config) ==
    [config |-> config,
     clip_config |-> CLIPConfig_from_dict(config.clip_config_dict),
     clip_model |-> CLIPModel(CLIPConfig_from_dict(config.clip_config_dict)),
     vision_vq_adapter |->
        IF DictTruthy(config.vision_vq_adapter_config_dict)
        THEN Some(VQAdapterModel(config.vision_vq_adapter_config_dict[1]))
        ELSE None,
     text_vq_adapter |->
        IF DictTruthy(config.text_vq_adapter_config_dict)
        THEN Some(VQAdapterModel(config.text_vq_adapter_config_dict[1]))
        ELSE None]

\* the parameters of sub-instance inst under the names prefix.<name>
Prefixed(prefix, inst) ==
    [k \in {prefix \o DOT \o n : n \in DOMAIN inst} |->
        inst[SubSeq(k, Len(prefix) + 2, Len(k))]]

\* the names under which the registered sub-instance held in attr reports
\* its parameters; an attribute that is None registers nothing
OwnedKeys(prefix, attr) ==
    IF attr = None THEN {} ELSE {prefix \o DOT \o n : n \in DOMAIN attr[1]}

\* self.state_dict(): every registered sub-instance's parameters, under the
\* attribute's name; VQCLIPModel registers no parameter of its own
state_dict(self) ==
    Prefixed(CLIP_MODEL, self.clip_model)
        @@ (IF self.vision_vq_adapter = None THEN EmptyDict
            ELSE Prefixed(VISION_VQ_ADAPTER, self.vision_vq_adapter[1]))
        @@ (IF self.text_vq_adapter = None THEN EmptyDict
            ELSE Prefixed(TEXT_VQ_ADAPTER, self.text_vq_adapter[1]))

\* faulty variant of AdapterStateDict: nothing is filtered out
AdapterStateDict_unfiltered(self) == state_dict(self)

\* the mapping sd that save_adapter builds
AdapterStateDict(self) ==
    LET full == state_dict(self)
    IN  [k \in {x \in DOMAIN full : ~StartsWith(x, CLIP_MODEL)} |-> full[k]]

\* self.save_pretrained(path, state_dict=sd): the checkpoint written, the
\* configuration document and the parameter mapping
save_pretrained(self, sd) ==
    [config |-> VQCLIPConfig_to_dict(self.config), state_dict |-> sd]

\* VQCLIPModel.save_adapter: the checkpoint that ends up at the path
save_adapter(self) == save_pretrained(self, AdapterStateDict(self))

\* load_state_dict into one sub-instance: a parameter named in the
\* checkpoint takes the checkpoint's value, any other keeps its initial one
LoadInto(prefix, inst, sd) ==
    [n \in DOMAIN inst |->
        IF (prefix \o n) \in DOMAIN sd THEN sd[prefix \o n] ELSE inst[n]]

LoadOpt(prefix, attr, sd) ==
    IF attr = None THEN None ELSE Some(LoadInto(prefix, attr[1], sd))

\* VQCLIPModel.from_pretrained(path): raises when nothing can be read at the
\* path, otherwise builds the model from the stored configuration and loads
\* the stored parameters into it
VQCLIPModel_from_pretrained(files, path) ==
    IF files[path] = None
    THEN [raised |-> Some(<<"OSError", path>>), value |-> None]
    ELSE LET ckpt == files[path][1]
             m == VQCLIPModel_init(VQCLIPConfig_from_dict(ckpt.config))
             sd == ckpt.state_dict
         IN  [raised |-> None,
              value |-> Some(
                [m EXCEPT
                   !.clip_model = LoadInto(CLIP_MODEL \o DOT, @, sd),
                   !.vision_vq_adapter =
                       LoadOpt(VISION_VQ_ADAPTER \o DOT, @, sd),
                   !.text_vq_adapter =
                       LoadOpt(TEXT_VQ_ADAPTER \o DOT, @, sd)])]

\* CLIPModel.from_pretrained(path)
CLIPModel_from_pretrained(files, path) ==
    IF files[path] = None
    THEN [raised |-> Some(<<"OSError", path>>), value |-> None]
    ELSE LET ckpt == files[path][1]
             m == CLIPModel(CLIPConfig_from_dict(ckpt.config))
         IN  [raised |-> None,
              value |-> Some(LoadInto(<<>>, m, ckpt.state_dict))]

\* faulty variant of ReplaceBackbone: the model is rebuilt around the new
\* backbone, which resets the adapters
ReplaceBackbone_rebuild(vq_clip, clip) ==
    [VQCLIPModel_init(vq_clip.config) EXCEPT !.clip_model = clip]

\* vq_clip.clip_model = clip
ReplaceBackbone(vq_clip, clip) == [vq_clip EXCEPT !.clip_model = clip]

\* faulty variant of from_pretrained_clip: a backbone that cannot be loaded
\* is skipped and the model is returned as loaded
from_pretrained_clip_lenient(files, vq_clip_path, clip_path) ==
    LET r1 == VQCLIPModel_from_pretrained(files, vq_clip_path)
        r2 == CLIPModel_from_pretrained(files, clip_path)
    IN  IF r1.raised # None
        THEN [raised |-> r1.raised, value |-> None, loaded |-> None]
        ELSE IF r2.raised # None
        THEN [raised |-> None, value |-> r1.value, loaded |-> r1.value]
        ELSE [raised |-> None,
              value |-> Some(ReplaceBackbone(r1.value[1], r2.value[1])),
              loaded |-> r1.value]

\* VQCLIPModel.from_pretrained_clip(vq_clip_path, clip_path): what the call
\* raises, what it returns, and (loaded) the model as it was when the
\* adapter checkpoint had been loaded and the backbone not yet replaced
from_pretrained_clip(files, vq_clip_path, clip_path) ==
    LET r1 == VQCLIPModel_from_pretrained(files, vq_clip_path)
        r2 == CLIPModel_from_pretrained(files, clip_path)
    IN  IF r1.raised # None
        THEN [raised |-> r1.raised, value |-> None, loaded |-> None]
        ELSE IF r2.raised # None
        THEN [raised |-> r2.raised, value |-> None, loaded |-> r1.value]
        ELSE [raised |-> None,
              value |-> Some(ReplaceBackbone(r1.value[1], r2.value[1])),
              loaded |-> r1.value]

-----------------------------------------------------------------------------
(* The backbone's capabilities, as forward consumes them *)

\* the projected vectors a backbone can produce; each has a rational norm
VecPool ==
    << <<3, 4>>, <<6, 8>>, <<0, 5>>, <<10, 0>>, <<-4, 3>>, <<5, 12>> >>

Vec(i) == Tuple([d \in 1..Len(VecPool[i]) |-> Rat(VecPool[i][d], 1)])

\* the output of an encoder stack: as a ModelOutput when return_dict, as a
\* plain tuple otherwise, holding (last_hidden_state, pooler_output) either way
TowerOutput(return_dict, tower, inputs, pooled) ==
    [return_dict |-> return_dict,
     fields |-> << <<"last_hidden_state", tower, inputs>>, pooled >>]

\* self.clip_model.vision_model(pixel_values=..., return_dict=...)
vision_model(clip_model, pixel_values, return_dict) ==
    TowerOutput(return_dict, "vision", pixel_values,
                Tuple([r \in 1..BatchSize |-> 2 * pixel_values + r]))

\* self.clip_model.text_model(input_ids=..., return_dict=...)
text_model(clip_model, input_ids, return_dict) ==
    TowerOutput(return_dict, "text", input_ids,
                Tuple([r \in 1..BatchSize |-> input_ids + r]))

\* outputs[i] with Python's index i counted from 0, on a tuple and on a
\* ModelOutput alike
GetItem(outputs, i) == outputs.fields[i + 1]

\* self.clip_model.visual_projection(pooled)
visual_projection(clip_model, pooled) ==
    Tuple([r \in 1..Len(pooled) |->
        Vec(((clip_model[VISUAL_PROJECTION] + pooled[r]) % Len(VecPool)) + 1)])

\* self.clip_model.text_projection(pooled)
text_projection(clip_model, pooled) ==
    Tuple([r \in 1..Len(pooled) |->
        Vec(((clip_model[TEXT_PROJECTION] + 2 * pooled[r]) % Len(VecPool)) + 1)])

\* logit_scale.exp(), to base 2 so that the value is exact
Exp(logit_scale) == Rat(2 ^ logit_scale, 1)

\* the backbone checkpoint at the backbone path
PretrainedClipCheckpoint ==
    [config |-> DefaultClipConfigDict,
     state_dict |-> (LOGIT_SCALE :> 2) @@ (TEXT_PROJECTION :> 1)
                        @@ (VISUAL_PROJECTION :> 3)]

\* the values clip_loss(logits_per_text) may return
ClipLossValues == {Rat(1, 4), Rat(3, 4)}

-----------------------------------------------------------------------------
(* The adapter's capability, as forward consumes it *)

\* the k-th result an adapter call may return: a replacement embedding z
\* (of unit norm for odd k, not of unit norm for even k), codes, a loss
\* and a perplexity
AdapterResult(k) ==
    [z |-> Tuple([r \in 1..BatchSize |->
              IF k % 2 = 1
              THEN IF r % 2 = 1 THEN <<One, Zero>> ELSE <<Zero, One>>
              ELSE <<Rat(k, 1), Rat(r, 1)>>]),
     codes |-> Tuple([r \in 1..BatchSize |-> k + r]),
     loss |-> Rat(3 * (k - 1), 2),
     perplexity |-> Rat(2 * k + 1, 1)]

AdapterResults == {AdapterResult(k) : k \in 1..NumAdapterResults}

-----------------------------------------------------------------------------
(* VQCLIPOutput and forward *)

OutputFields ==
    {"loss", "logits_per_image", "logits_per_text", "text_embeds",
     "image_embeds", "text_model_output", "vision_model_output",
     "text_codes", "image_codes", "quantization_loss", "contrastive_loss",
     "perplexity"}

\* VQCLIPOutput(**kw): a field that is not passed keeps its default, None
VQCLIPOutput(kw) ==
    [f \in OutputFields |-> IF f \in DOMAIN kw THEN kw[f] ELSE None]

\* faulty variant of Average: the sum is kept
Average_sum(x, vision_on, text_on) == x

\* lines 207-210: the sum is halved when both adapters are active
Average(x, vision_on, text_on) ==
    IF vision_on /\ text_on THEN RDiv(x, Two) ELSE x

\* faulty variant of TotalLoss: computed also when no loss was requested
TotalLoss_always(loss, vq_loss) ==
    IF loss # None THEN Some(RAdd(loss[1], vq_loss)) ELSE Some(vq_loss)

\* lines 221-223
TotalLoss(loss, vq_loss) ==
    IF loss # None THEN Some(RAdd(loss[1], vq_loss)) ELSE None

\* faulty variant of FlatTuple: loss is prepended even when it is None
FlatTuple_always(loss, total_loss, output) == <<loss>> \o output

\* faulty variant of FlatTuple: the total loss is prepended
FlatTuple_total(loss, total_loss, output) ==
    IF loss # None THEN <<total_loss[1]>> \o output ELSE output

\* line 234
FlatTuple(loss, total_loss, output) ==
    IF loss # None THEN <<loss[1]>> \o output ELSE output

\* VQCLIPModel.forward(input_ids, pixel_values, return_loss, return_dict,
\* return_perplexity) on model self; c holds the arguments and the values
\* the adapters and clip_loss return during the call
forward(self, c) ==
    LET return_dict ==
            IF c.return_dict # None THEN c.return_dict[1]
            ELSE use_return_dict(self.clip_config)
        vision_outputs ==
            vision_model(self.clip_model, c.pixel_values, return_dict)
        text_outputs == text_model(self.clip_model, c.input_ids, return_dict)
        image_proj ==
            visual_projection(self.clip_model, GetItem(vision_outputs, 1))
        text_proj == text_projection(self.clip_model, GetItem(text_outputs, 1))
        image_norm == Normalize(image_proj)
        text_norm == Normalize(text_proj)
        return_perplexity == Truthy(c.return_perplexity)
        text_on == self.text_vq_adapter # None
        vision_on == self.vision_vq_adapter # None
        text_embeds == IF text_on THEN c.text_res[1].z ELSE text_norm
        text_codes == IF text_on THEN Some(c.text_res[1].codes) ELSE None
        perplexity1 ==
            IF text_on
            THEN RAdd(Zero, IF return_perplexity
                            THEN c.text_res[1].perplexity ELSE Zero)
            ELSE Zero
        vq_loss1 == IF text_on THEN RAdd(Zero, c.text_res[1].loss) ELSE Zero
        image_embeds == IF vision_on THEN c.vision_res[1].z ELSE image_norm
        image_codes == IF vision_on THEN Some(c.vision_res[1].codes) ELSE None
        perplexity2 ==
            IF vision_on
            THEN RAdd(perplexity1, IF return_perplexity
                                   THEN c.vision_res[1].perplexity ELSE Zero)
            ELSE perplexity1
        vq_loss2 ==
            IF vision_on THEN RAdd(vq_loss1, c.vision_res[1].loss) ELSE vq_loss1
        perplexity == Average(perplexity2, vision_on, text_on)
        vq_loss == Average(vq_loss2, vision_on, text_on)
        logit_scale == Exp(self.clip_model[LOGIT_SCALE])
        logits_per_text ==
            MatScale(MatMul(text_embeds, Transpose(image_embeds)), logit_scale)
        logits_per_image == Transpose(logits_per_text)
        loss == IF Truthy(c.return_loss) THEN c.clip_loss ELSE None
        total_loss == TotalLoss(loss, vq_loss)
        output ==
            <<logits_per_image, logits_per_text, text_embeds, image_embeds,
              text_outputs, vision_outputs>>
    IN  [text_adapter_input |-> IF text_on THEN Some(text_norm) ELSE None,
         vision_adapter_input |-> IF vision_on THEN Some(image_norm) ELSE None,
         perplexity |-> perplexity,
         structured |-> return_dict,
         value |->
            IF ~return_dict
            THEN FlatTuple(loss, total_loss, output)
            ELSE VQCLIPOutput(
                   [loss |-> total_loss,
                    quantization_loss |-> Some(vq_loss),
                    contrastive_loss |-> loss,
                    logits_per_image |-> Some(logits_per_image),
                    logits_per_text |-> Some(logits_per_text),
                    text_embeds |-> Some(text_embeds),
                    text_codes |-> text_codes,
                    image_embeds |-> Some(image_embeds),
                    image_codes |-> image_codes])]

OptBool == {None, Some(TRUE), Some(FALSE)}

OptAdapterResult == {None} \cup {Some(r) : r \in AdapterResults}

OptClipLoss == {None} \cup {Some(x) : x \in ClipLossValues}

\* the forward calls considered on model m: the arguments, one result for
\* each adapter the model holds, and a contrastive loss when one is requested
Calls(m) ==
    {c \in [input_ids : 1..NumInputs, pixel_values : 1..NumInputs,
            return_loss : OptBool, return_dict : OptBool,
            return_perplexity : OptBool, text_res : OptAdapterResult,
            vision_res : OptAdapterResult, clip_loss : OptClipLoss] :
        /\ (c.text_res = None) <=> (m.text_vq_adapter = None)
        /\ (c.vision_res = None) <=> (m.vision_vq_adapter = None)
        /\ (c.clip_loss = None) <=> ~Truthy(c.return_loss)}

-----------------------------------------------------------------------------
(* The state machine *)

\* where VQCLIPModel checkpoints are written and read
VQPaths == {"vq_a", "vq_b"}

\* where a backbone checkpoint is looked for; nothing is ever at clip_absent
ClipPaths == {"clip", "clip_absent"}

\* the values training may have left in the vision adapter's and the text
\* adapter's parameters
TrainedWeights == {<<1, 2>>}

\* model m with its adapters' parameters set to wv (vision) and wt (text)
WithAdapterWeights(m, wv, wt) ==
    [m EXCEPT
       !.vision_vq_adapter = IF @ = None THEN None ELSE Some(CODEBOOK :> wv),
       !.text_vq_adapter = IF @ = None THEN None ELSE Some(CODEBOOK :> wt)]

\* model: the caller's VQCLIPModel; fs: the checkpoint at each path, None
\* where there is none; graft: the last from_pretrained_clip call and its
\* outcome; call: the forward call under observation, None when there is
\* none; out: what that call returned on the current model
Init ==
    /\ \E kw \in ConstructorCalls, w \in TrainedWeights :
          model =
            WithAdapterWeights(VQCLIPModel_init(VQCLIPConfig(kw)), w[1], w[2])
    /\ fs = [p \in VQPaths \cup ClipPaths |->
               IF p = "clip" THEN Some(PretrainedClipCheckpoint) ELSE None]
    /\ graft = None
    /\ call \in {None} \cup {Some(c) : c \in Calls(model)}
    /\ out = None

\* model.save_adapter(path)
SaveAdapter(path) ==
    /\ fs' = [fs EXCEPT ![path] = Some(save_adapter(model))]
    /\ UNCHANGED <<model, graft, call, out>>

\* model = VQCLIPModel.from_pretrained_clip(vq_clip_path, clip_path): when
\* the call raises, the caller's model stays as it was
GraftLoad(vq_clip_path, clip_path) ==
    LET r == from_pretrained_clip(fs, vq_clip_path, clip_path)
    IN  /\ graft' = Some([vq_clip_path |-> vq_clip_path,
                          clip_path |-> clip_path,
                          raised |-> r.raised,
                          value |-> r.value,
                          loaded |-> r.loaded])
        /\ model' = IF r.value # None THEN r.value[1] ELSE model
        /\ out' = IF r.value # None THEN None ELSE out
        /\ UNCHANGED <<fs, call>>

\* out = model(**call)
Forward ==
    /\ call # None
    /\ out' = Some(forward(model, call[1]))
    /\ UNCHANGED <<model, fs, graft, call>>

Next ==
    \/ \E path \in VQPaths : SaveAdapter(path)
    \/ \E vq_clip_path \in VQPaths, clip_path \in ClipPaths :
          GraftLoad(vq_clip_path, clip_path)
    \/ Forward

Spec == Init /\ [][Next]_vars

\* the files and the graft record after model m has been saved to vq_a and
\* loaded back with the backbone at clip
SavedFiles(m) ==
    [p \in VQPaths \cup ClipPaths |->
        IF p = "clip" THEN Some(PretrainedClipCheckpoint)
        ELSE IF p = "vq_a" THEN Some(save_adapter(m)) ELSE None]

\* forward alone. It reads model and call and writes out only, so it is
\* applied to every call on every model a caller can hold: a model as
\* constructed, and a model as from_pretrained_clip returns it (the state
\* reached from Init by SaveAdapter("vq_a") and GraftLoad("vq_a", "clip"))
InitForward ==
    /\ \E kw \in ConstructorCalls, w \in TrainedWeights :
          LET m == WithAdapterWeights(VQCLIPModel_init(VQCLIPConfig(kw)),
                                      w[1], w[2])
              r == from_pretrained_clip(SavedFiles(m), "vq_a", "clip")
          IN  \/ /\ model = m
                 /\ fs = [p \in VQPaths \cup ClipPaths |->
                            IF p = "clip" THEN Some(PretrainedClipCheckpoint)
                            ELSE None]
                 /\ graft = None
              \/ /\ model = r.value[1]
                 /\ fs = SavedFiles(m)
                 /\ graft = Some([vq_clip_path |-> "vq_a",
                                  clip_path |-> "clip",
                                  raised |-> r.raised,
                                  value |-> r.value,
                                  loaded |-> r.loaded])
    /\ call \in {Some(c) : c \in Calls(model)}
    /\ out = None

SpecForward == InitForward /\ [][Forward]_vars

\* the persistence operations alone, with no forward call under observation
InitPersistence == Init /\ call = None

NextPersistence ==
    \/ \E path \in VQPaths : SaveAdapter(path)
    \/ \E vq_clip_path \in VQPaths, clip_path \in ClipPaths :
          GraftLoad(vq_clip_path, clip_path)

SpecPersistence == InitPersistence /\ [][NextPersistence]_vars

-----------------------------------------------------------------------------
(* Properties *)

\* the names of the full parameter mapping that belong to the backbone
\* sub-instance of m
BackboneKeys(m) == OwnedKeys(CLIP_MODEL, Some(m.clip_model))

\* the names that belong to the adapters of m
AdapterKeys(m) ==
    OwnedKeys(VISION_VQ_ADAPTER, m.vision_vq_adapter)
        \cup OwnedKeys(TEXT_VQ_ADAPTER, m.text_vq_adapter)

\* name k begins with the backbone's namespace
InBackboneNamespace(k) ==
    Len(k) >= Len(CLIP_MODEL)
        /\ \A i \in 1..Len(CLIP_MODEL) : k[i] = CLIP_MODEL[i]

\* C1: the parameter mapping save_adapter writes has no name in the
\* backbone's namespace; a name of the model's full mapping is in it exactly
\* when it does not belong to the backbone, and keeps its value.
C1_SaveAdapterKeepsAllButBackbone ==
    \A p \in VQPaths :
        fs[p] # None =>
            LET saved == fs[p][1].state_dict
                full == state_dict(model)
            IN  /\ \A k \in DOMAIN saved : ~InBackboneNamespace(k)
                /\ \A k \in DOMAIN full :
                      (k \in DOMAIN saved) <=> (k \notin BackboneKeys(model))
                /\ DOMAIN saved = AdapterKeys(model)
                /\ \A k \in DOMAIN saved : saved[k] = full[k]

\* a checkpoint was saved from a model that holds both adapters
C1_Witness ==
    \E p \in VQPaths :
        /\ fs[p] # None
        /\ model.vision_vq_adapter # None
        /\ model.text_vq_adapter # None
        /\ Cardinality(DOMAIN fs[p][1].state_dict) = 2

\* C2: after a successful from_pretrained_clip the returned model's backbone
\* holds the parameters of the checkpoint at the backbone path, and its
\* adapters, its configuration and its backbone configuration are those of
\* the model loaded from the adapter checkpoint, before the replacement.
C2_GraftReplacesOnlyBackbone ==
    (graft # None /\ graft[1].value # None) =>
        LET g == graft[1]
            m == g.value[1]
            l == g.loaded[1]
            clip_sd == fs[g.clip_path][1].state_dict
            vq_sd == fs[g.vq_clip_path][1].state_dict
        IN  /\ model = m
            /\ DOMAIN m.clip_model = DOMAIN clip_sd
            /\ \A n \in DOMAIN clip_sd : m.clip_model[n] = clip_sd[n]
            /\ m.vision_vq_adapter = l.vision_vq_adapter
            /\ m.text_vq_adapter = l.text_vq_adapter
            /\ m.config = l.config
            /\ m.clip_config = l.clip_config
            /\ \A k \in AdapterKeys(m) : state_dict(m)[k] = vq_sd[k]

\* a graft succeeded on a model with a vision adapter, and replaced a
\* backbone that differed from the loaded one
C2_Witness ==
    /\ graft # None
    /\ graft[1].value # None
    /\ graft[1].value[1].vision_vq_adapter # None
    /\ graft[1].loaded[1].clip_model # graft[1].value[1].clip_model

\* C3: when either checkpoint cannot be loaded, from_pretrained_clip raises
\* the error of the load that failed and returns no model; a model that is
\* returned never has the backbone that was initialised from the
\* configuration.
C3_GraftFailsAtomically ==
    graft # None =>
        LET g == graft[1]
        IN  /\ fs[g.vq_clip_path] = None =>
                /\ g.raised = Some(<<"OSError", g.vq_clip_path>>)
                /\ g.value = None
            /\ (fs[g.vq_clip_path] # None /\ fs[g.clip_path] = None) =>
                /\ g.raised # None
                /\ g.raised[1][2] \in {g.vq_clip_path, g.clip_path}
                /\ g.value = None
            /\ g.raised # None => g.value = None
            /\ g.value # None =>
                /\ g.raised = None
                /\ g.value[1].clip_model
                      # CLIPModel(g.value[1].clip_config)
                /\ \A n \in DOMAIN g.value[1].clip_model :
                      g.value[1].clip_model[n]
                          = fs[g.clip_path][1].state_dict[n]

\* the adapter checkpoint was loaded and the backbone could not be
C3_Witness ==
    /\ graft # None
    /\ graft[1].raised = Some(<<"OSError", graft[1].clip_path>>)
    /\ graft[1].loaded # None
    /\ graft[1].value = None

\* the structured result of the call under observation
IsStructured == out # None /\ out[1].structured

\* the flat tuple of the call under observation
IsFlat == out # None /\ ~out[1].structured

TextOn == model.text_vq_adapter # None

VisionOn == model.vision_vq_adapter # None

\* C4: the quantization loss forward reports is the text adapter's loss a
\* and the vision adapter's loss b averaged over the active adapters:
\* (a+b)/2 with both, a or b with one, 0 with none.
C4_QuantizationLossIsAverage ==
    IsStructured =>
        LET q == out[1].value["quantization_loss"]
            c == call[1]
        IN  /\ q # None
            /\ (TextOn /\ VisionOn) =>
                  RMul(q[1], Two) = RAdd(c.text_res[1].loss, c.vision_res[1].loss)
            /\ (TextOn /\ ~VisionOn) => q[1] = c.text_res[1].loss
            /\ (~TextOn /\ VisionOn) => q[1] = c.vision_res[1].loss
            /\ (~TextOn /\ ~VisionOn) => q[1] = Zero

\* both adapters are active and their losses differ
C4_Witness ==
    /\ IsStructured
    /\ TextOn
    /\ VisionOn
    /\ call[1].text_res[1].loss # call[1].vision_res[1].loss
    /\ out[1].value["quantization_loss"][1] # Zero

\* the perplexity the averaging rule gives for call c
ExpectedPerplexity(c) ==
    IF TextOn /\ VisionOn
    THEN RDiv(RAdd(c.text_res[1].perplexity, c.vision_res[1].perplexity), Two)
    ELSE IF TextOn THEN c.text_res[1].perplexity
    ELSE c.vision_res[1].perplexity

\* C5: the structured result carries a perplexity exactly when perplexity was
\* requested and an adapter is active, and then it is the average of the
\* active adapters' perplexities.
C5_PerplexityReported ==
    IsStructured =>
        LET px == out[1].value["perplexity"]
            c == call[1]
            due == Truthy(c.return_perplexity) /\ (TextOn \/ VisionOn)
        IN  /\ (px # None) <=> due
            /\ due => px = Some(ExpectedPerplexity(c))

\* C6: in the structured result the total loss and the contrastive loss are
\* present exactly when a loss was requested; the total is then the
\* contrastive loss plus the quantization loss; the quantization loss is
\* reported either way.
C6_TotalLossOnlyWhenRequested ==
    IsStructured =>
        LET v == out[1].value
            c == call[1]
        IN  /\ (v["loss"] # None) <=> Truthy(c.return_loss)
            /\ (v["contrastive_loss"] # None) <=> Truthy(c.return_loss)
            /\ v["quantization_loss"] # None
            /\ Truthy(c.return_loss) =>
                /\ v["contrastive_loss"] = c.clip_loss
                /\ v["loss"][1]
                      = RAdd(v["contrastive_loss"][1], v["quantization_loss"][1])

\* no loss was requested and the quantization loss is reported, non-zero
C6_Witness ==
    /\ IsStructured
    /\ ~Truthy(call[1].return_loss)
    /\ out[1].value["loss"] = None
    /\ out[1].value["quantization_loss"] # None
    /\ out[1].value["quantization_loss"][1] # Zero

\* the structured result of the same call on the same model
StructuredTwin ==
    forward(model, [call[1] EXCEPT !.return_dict = Some(TRUE)]).value

\* C7: the flat tuple is (loss?, logits_per_image, logits_per_text,
\* text_embeds, image_embeds, text tower output, vision tower output), loss
\* first and only when requested; its logits and embeddings are those of the
\* structured result of the same call.
C7_FlatTupleOrderAndParity ==
    IsFlat =>
        LET t == out[1].value
            c == call[1]
            s == StructuredTwin
            off == IF Truthy(c.return_loss) THEN 1 ELSE 0
        IN  /\ Len(t) = 6 + off
            /\ off = 1 => t[1] = c.clip_loss[1]
            /\ t[off + 1] = s["logits_per_image"][1]
            /\ t[off + 2] = s["logits_per_text"][1]
            /\ t[off + 3] = s["text_embeds"][1]
            /\ t[off + 4] = s["image_embeds"][1]
            /\ t[off + 1] = Transpose(t[off + 2])
            /\ t[off + 5] = text_model(model.clip_model, c.input_ids, FALSE)
            /\ t[off + 6] = vision_model(model.clip_model, c.pixel_values, FALSE)

\* a flat tuple with a loss in front, whose two logits matrices differ
C7_Witness ==
    /\ IsFlat
    /\ Truthy(call[1].return_loss)
    /\ Len(out[1].value) = 7
    /\ out[1].value[2] # out[1].value[3]
    /\ out[1].value[4] # out[1].value[5]

\* the text and image embeddings the logits of the observed call are
\* computed from
FedTextEmbeds ==
    IF out[1].structured THEN out[1].value["text_embeds"][1]
    ELSE out[1].value[Len(out[1].value) - 3]

FedImageEmbeds ==
    IF out[1].structured THEN out[1].value["image_embeds"][1]
    ELSE out[1].value[Len(out[1].value) - 2]

C9_ConfigRoundTrip ==
    /\ \A p \in VQPaths :
          fs[p] # None =>
              LET d == fs[p][1].config
                  r == VQCLIPConfig_from_dict(d)
              IN  /\ \A k \in ConfigKeys : r[k] = model.config[k]
                  /\ (VQCLIPModel_init(r).vision_vq_adapter = None)
                        <=> (model.vision_vq_adapter = None)
                  /\ (VQCLIPModel_init(r).text_vq_adapter = None)
                        <=> (model.text_vq_adapter = None)
    /\ (graft # None /\ graft[1].loaded # None) =>
          /\ graft[1].loaded[1].config = model.config
          /\ (graft[1].loaded[1].vision_vq_adapter = None)
                <=> (model.vision_vq_adapter = None)

\* a configuration without a vision adapter fragment was saved and loaded
C9_Witness ==
    /\ graft # None
    /\ graft[1].loaded # None
    /\ model.config.vision_vq_adapter_config_dict = None
    /\ model.config.text_vq_adapter_config_dict # None
    /\ graft[1].loaded[1].vision_vq_adapter = None

\* C10: with a loss requested and an adapter active, the first element of
\* the flat tuple is the contrastive loss alone and the tuple holds nothing
\* else but the six logits, embeddings and tower outputs, while the loss of
\* the structured result of the same call is contrastive plus quantization
\* loss; the two are equal only when the quantization loss is 0.
C10_FlatLossIsContrastiveOnly ==
    (IsFlat /\ Truthy(call[1].return_loss) /\ (TextOn \/ VisionOn)) =>
        LET t == out[1].value
            s == StructuredTwin
            q == s["quantization_loss"][1]
        IN  /\ Len(t) = 7
            /\ t[1] = call[1].clip_loss[1]
            /\ s["loss"] = Some(RAdd(t[1], q))
            /\ (s["loss"] = Some(t[1])) <=> (q = Zero)

\* the flat loss and the structured loss of the same call differ
C10_Witness ==
    /\ IsFlat
    /\ Truthy(call[1].return_loss)
    /\ TextOn
    /\ StructuredTwin["quantization_loss"][1] # Zero
    /\ StructuredTwin["loss"] # Some(out[1].value[1])

====
